---- MODULE Spec2Model ----
(***************************************************************************)
(* A model of the Secret Service object model of secret-service-server-rs: *)
(* the Service, Collection, Item and Session interfaces served by a zbus   *)
(* object server (src/src/object/*.rs, src/src/server.rs).                 *)
(*                                                                         *)
(* Every inbound method call is a call record in `calls`.  A call is       *)
(* dispatched (the object server resolves the path to an interface),       *)
(* acquires the lock of its target (shared for &self handlers, exclusive   *)
(* for &mut self handlers) and then runs its handler.  A handler step runs *)
(* from one acquisition of a per-object lock to the next one, which are    *)
(* the points where a handler can be made to wait by another call.         *)
(***************************************************************************)
EXTENDS FiniteSets, Integers, Sequences, TLC

\* ---------------------------------------------------------------- bounds
\* uuid::Uuid::new_v4() is modelled as the next unused number of a pool.
MaxColl == 2
MaxItem == 2
MaxSess == 2

VARIABLES registry, service, colls, items, sessions, calls

vars == <<registry, service, colls, items, sessions, calls>>

\* ----------------------------------------------------------------- paths
\* An object path is a record: kind is the fixed prefix, cid the hex id of
\* the collection or session segment, iid the hex id of the item segment.
Path(kind, cid, iid) == [kind |-> kind, cid |-> cid, iid |-> iid]

RootPath == Path("root", 0, 0)

ServicePath == Path("service", 0, 0)

DefaultPath == Path("default", 0, 0)

NoPath == Path("none", 0, 0)

NoAlias == "<None>"

EmptyFn == [x \in {} |-> {}]

\* Collection::get_object_path: the fixed path when the alias field is
\* "default", the path derived from the id otherwise.
CollectionGetObjectPath(c) ==
  IF c.alias # NoAlias /\ c.alias = "default"
  THEN DefaultPath
  ELSE Path("collection", c.id, 0)

\* Item::get_object_path: parent_path + "/" + hex(id).
ItemGetObjectPath(i) == [i.parent_path EXCEPT !.iid = i.id]

\* Session::get_object_path.
SessionGetObjectPath(s) == Path("session", s.id, 0)

\* ------------------------------------------------------- object server
\* ObjectServer::interface::<_, I>(path) succeeds iff an interface of that
\* type is registered at the path.
HasInterface(reg, path, kind) ==
  path \in DOMAIN reg /\ reg[path].kind = kind

\* ObjectServer::at(path, iface): registers unless the path already serves
\* the interface; the boolean result is TRUE iff it was added.
ServeAtAdded(reg, path) == path \notin DOMAIN reg

ServeAt(reg, path, kind, id) ==
  IF ServeAtAdded(reg, path)
  THEN [p \in DOMAIN reg \cup {path} |->
          IF p = path THEN [kind |-> kind, id |-> id] ELSE reg[p]]
  ELSE reg

\* ObjectServer::remove::<I, _>(path): Err(InterfaceNotFound) when nothing
\* of that type is served at the path.
RemoveKind(reg, path) ==
  [p \in {q \in DOMAIN reg : reg[q].kind # reg[path].kind} |-> reg[p]]

Remove(reg, path) == [p \in DOMAIN reg \ {path} |-> reg[p]]

\* ------------------------------------------------------------- secrets
\* A byte string is a sequence of bytes.  The value field of a secret on
\* the wire is either such a byte string or an AES-128-CBC/PKCS7
\* ciphertext, represented by the key, the IV and the plaintext it was
\* produced from.  An IV is represented by its repeated byte, 0 is the
\* empty byte string.
PlainBytes(b) == [enc |-> FALSE, key |-> 0, iv |-> 0, data |-> b]

EmptyBytes == PlainBytes(<<>>)

FixedIv == 36

AlgPlain == [tag |-> "Plain", aes_key |-> 0]

AlgDh(k) == [tag |-> "Dh", aes_key |-> k]

\* Session::is_encrypted
is_encrypted(sess) == sess.algorithm.tag = "Dh"

\* Algorithm::encrypt: (ciphertext, iv); the IV is the constant [0x24; 16].
encrypt_unkeyed(alg, plaintext) ==
  [value |-> [enc |-> TRUE, key |-> 0, iv |-> FixedIv, data |-> plaintext],
   iv |-> FixedIv]

encrypt(alg, plaintext) ==
  IF alg.tag = "Dh"
  THEN [value |-> [enc |-> TRUE, key |-> alg.aes_key, iv |-> FixedIv,
                   data |-> plaintext],
        iv |-> FixedIv]
  ELSE [value |-> PlainBytes(plaintext), iv |-> 0]

\* Algorithm::decrypt.  Under Dh the result is defined only for a
\* ciphertext produced with the same key and IV; anything else fails to
\* unpad (or has an IV that is not 16 bytes) and the unwrap panics.
DecryptOk(alg, ciphertext, iv) ==
  IF alg.tag = "Dh"
  THEN ciphertext.enc /\ ciphertext.key = alg.aes_key /\ iv # 0
       /\ ciphertext.iv = iv
  ELSE TRUE

decrypt(alg, ciphertext, iv) == ciphertext.data

\* String::from_utf8: in the byte strings of the model a byte is valid
\* UTF-8 iff it is ASCII.
IsUtf8(b) == \A k \in 1..Len(b) : b[k] < 128

from_utf8(b) == [utf8 |-> b]

as_bytes(str) == str.utf8

Secret(session, value, parameters) ==
  [session |-> session, value |-> value, parameters |-> parameters]

NoSecret == Secret(RootPath, EmptyBytes, 0)

\* The decoding shared by Item::new and Item::set_secret_with_session:
\* decrypt when the session is encrypted, then String::from_utf8(..).unwrap().
DecodeOk(sess, secret) ==
  IF is_encrypted(sess)
  THEN /\ DecryptOk(sess.algorithm, secret.value, secret.parameters)
       /\ IsUtf8(decrypt(sess.algorithm, secret.value, secret.parameters))
  ELSE ~secret.value.enc /\ IsUtf8(secret.value.data)

DecodeEmpty(sess, secret) == from_utf8(<<>>)

Decode(sess, secret) ==
  IF is_encrypted(sess)
  THEN from_utf8(decrypt(sess.algorithm, secret.value, secret.parameters))
  ELSE from_utf8(secret.value.data)

\* Item::get_secret_with_session
get_secret_with_session(item, sess) ==
  IF is_encrypted(sess)
  THEN LET e == encrypt(sess.algorithm, as_bytes(item.secret))
       IN Secret(SessionGetObjectPath(sess), e.value, e.iv)
  ELSE Secret(SessionGetObjectPath(sess), PlainBytes(as_bytes(item.secret)), 0)

\* Item::set_secret_with_session
set_secret_with_session_kept(item, secret, sess) == item

set_secret_with_session(item, secret, sess) ==
  [item EXCEPT !.secret = Decode(sess, secret)]

\* --------------------------------------------------------- call records
\* The error of Session::get_interface_from_object_path, which overrides the
\* default lookup to answer NoSession.
DefaultNotFound == "NoSuchObject"

SessionNotFound == "NoSession"

Obj(kind, id) == [kind |-> kind, id |-> id]

ServiceObj == Obj("Service", 0)

Held(obj, mode) == [kind |-> obj.kind, id |-> obj.id, mode |-> mode]

Snapshot ==
  [registry |-> registry, service |-> service, colls |-> colls,
   items |-> items, sessions |-> sessions]

Slots == {1, 2}

IdleCall ==
  [op |-> "none", path |-> RootPath, tgt |-> 0, pc |-> "idle", held |-> {},
   name |-> "", paths |-> <<>>, attrs |-> {}, secret |-> NoSecret,
   replace |-> FALSE, input |-> <<>>, apath |-> RootPath,
   sigs |-> <<>>, ret |-> "", rpath |-> RootPath, prompt |-> NoPath,
   rlist |-> <<>>,
   rlist2 |-> <<>>, rmap |-> EmptyFn, rsecret |-> NoSecret,
   todo |-> {}, found |-> {}, stale |-> {}, idx |-> 1, cur |-> 0, sess |-> 0,
   pre |-> [registry |-> EmptyFn, service |-> [aliases |-> EmptyFn,
            collections |-> {}], colls |-> <<>>, items |-> <<>>,
            sessions |-> <<>>]]

\* The interface each method belongs to, and whether its handler takes
\* &mut self (exclusive lock) or &self (shared lock).
OpKind(op) ==
  CASE op \in {"CreateCollection", "GetSecrets", "Lock", "Unlock",
               "OpenSession", "ReadAlias", "SetAlias", "SearchItems"}
         -> "Service"
    [] op \in {"CreateItem", "CollectionDelete", "CollectionSearchItems",
               "CollectionItems"}
         -> "Collection"
    [] op \in {"ItemDelete", "GetSecret", "SetSecret", "SetAttributes"}
         -> "Item"
    [] OTHER -> "Session"

OpMode(op) ==
  IF op \in {"CreateCollection", "Lock", "Unlock", "SetAlias", "CreateItem",
             "CollectionDelete", "ItemDelete", "SetSecret", "SetAttributes",
             "Close"}
  THEN "w" ELSE "r"

AllHeld == UNION {calls[t].held : t \in Slots}

\* async RwLock: a writer needs the lock free, a reader needs no writer.
\* The lock is not reentrant: a call waits for its own guards as well.
CanLock(obj, mode) ==
  LET hs == {h \in AllHeld : h.kind = obj.kind /\ h.id = obj.id}
  IN IF mode = "w" THEN hs = {} ELSE \A h \in hs : h.mode = "r"

Emit(sigs, name, path) == Append(sigs, [name |-> name, path |-> path])

\* A call that returned: every guard it held is dropped.
Done(c, ret, out) ==
  ([pc |-> "done", held |-> {}, ret |-> ret] @@ out) @@ c

SlotFree(s) == calls[s].pc \in {"idle", "done"}

InFlight(op) == Cardinality({t \in Slots : calls[t].pc \notin {"idle", "done"}
                                            /\ calls[t].op = op})

\* The object server resolves the path of an inbound call; a path that
\* serves no interface of the method is answered by the transport with
\* UnknownObject and no handler runs.
Dispatch(s, op, path, args) ==
  /\ LET c == ([op |-> op, path |-> path] @@ args) @@ IdleCall
     IN calls' = [calls EXCEPT ![s] =
          IF HasInterface(registry, path, OpKind(op))
          THEN [pc |-> "wait", tgt |-> registry[path].id] @@ c
          ELSE [pc |-> "done", ret |-> "UnknownObject"] @@ c]
  /\ UNCHANGED <<registry, service, colls, items, sessions>>

InitTodo(c) ==
  CASE c.op = "CollectionDelete" -> colls[c.tgt].items
    [] c.op = "SearchItems" -> service.collections
    [] OTHER -> {}

\* The dispatcher takes the lock of the target and enters the handler.
Acquire(s) ==
  LET c == calls[s]
      obj == Obj(OpKind(c.op), c.tgt)
  IN /\ c.pc = "wait"
     /\ CanLock(obj, OpMode(c.op))
     /\ calls' = [calls EXCEPT ![s] =
          [c EXCEPT !.pc = "run", !.held = {Held(obj, OpMode(c.op))},
                    !.todo = InitTodo(c), !.pre = Snapshot]]
     /\ UNCHANGED <<registry, service, colls, items, sessions>>

Running(s, op, pc) == calls[s].pc = pc /\ calls[s].op = op

\* ---------------------------------------------------------------- Init
\* SecretServiceServer::run: the service is served, then the default
\* collection is created through create_collection(.., "default").
Init ==
  LET dflt == [alias |-> "default", id |-> 1, locked |-> TRUE, items |-> {},
               items_with_attributes |-> EmptyFn]
  IN /\ registry = (ServicePath :> [kind |-> "Service", id |-> 0])
                   @@ (DefaultPath :> [kind |-> "Collection", id |-> 1])
     /\ service = [aliases |-> ("default" :> DefaultPath),
                   collections |-> {DefaultPath}]
     /\ colls = <<dflt>>
     /\ items = <<>>
     /\ sessions = <<>>
     /\ calls = [s \in Slots |-> IdleCall]

\* ------------------------------------------------- shared state updates
SetCall(s, c) == calls' = [calls EXCEPT ![s] = c]

SetColl(id, c) == [colls EXCEPT ![id] = c]

\* DbusChildObject::remove_from_parent, the part run under the parent's
\* exclusive guard: parent.get_mut_children().remove(path).
RemoveChild(children, path) == children \ {path}

\* Collection::insert_item
insert_item(coll, item_object_path, attributes_set, replace) ==
  LET iwa == coll.items_with_attributes
      kept == IF replace
              THEN {p \in DOMAIN iwa : iwa[p] = attributes_set}
              ELSE DOMAIN iwa
      its == IF replace THEN {p \in coll.items : p \in kept} ELSE coll.items
  IN [coll EXCEPT
        !.items = its \cup {item_object_path},
        !.items_with_attributes =
           [p \in kept \cup {item_object_path} |->
              IF p = item_object_path THEN attributes_set ELSE iwa[p]]]

\* Collection::search_items (the method of the Collection object)
search_items(coll, attributes) ==
  {p \in DOMAIN coll.items_with_attributes :
     coll.items_with_attributes[p] = attributes}

\* HashMap::remove and HashMap::insert on Service.aliases
AliasesRemove(aliases, name) ==
  [n \in DOMAIN aliases \ {name} |-> aliases[n]]

AliasesInsert(aliases, name, path) ==
  [n \in DOMAIN aliases \cup {name} |-> IF n = name THEN path ELSE aliases[n]]

\* ------------------------------------------- Service.CreateCollection
\* `if !alias.is_empty() { if let Some(..) = self.aliases.get(alias)`
ExistingAliasNever(aliases, alias) == FALSE

ExistingAlias(aliases, alias) == alias # "" /\ alias \in DOMAIN aliases

DispatchCreateCollection(s, alias) ==
  /\ SlotFree(s)
  /\ \/ alias \in DOMAIN service.aliases
     \/ Len(colls) < MaxColl
  /\ Dispatch(s, "CreateCollection", ServicePath, [name |-> alias])

CreateCollection(s) ==
  LET c == calls[s]
      alias == c.name
  IN /\ Running(s, "CreateCollection", "run")
     /\ IF ExistingAlias(service.aliases, alias)
        THEN /\ SetCall(s, Done(c, "Ok", [rpath |-> service.aliases[alias],
                                       prompt |-> RootPath]))
             /\ UNCHANGED <<registry, service, colls, items, sessions>>
        ELSE LET id == Len(colls) + 1
                 new == [alias |-> IF alias = "" THEN NoAlias ELSE alias,
                         id |-> id, locked |-> TRUE, items |-> {},
                         items_with_attributes |-> EmptyFn]
                 collection_path == CollectionGetObjectPath(new)
             IN /\ registry' = ServeAt(registry, collection_path,
                                       "Collection", id)
                /\ colls' = IF ServeAtAdded(registry, collection_path)
                            THEN Append(colls, new) ELSE colls
                /\ service' =
                     [collections |->
                        service.collections \cup {collection_path},
                      aliases |->
                        IF alias = "" THEN service.aliases
                        ELSE AliasesInsert(service.aliases, alias,
                                           collection_path)]
                /\ SetCall(s, Done(c, "Ok",
                     [rpath |-> collection_path, prompt |-> RootPath,
                      sigs |-> Emit(c.sigs, "CollectionCreated", c.path)]))
                /\ UNCHANGED <<items, sessions>>

\* ------------------------------------------------ Service.OpenSession
DhAlgorithm == "dh-ietf1024-sha256-aes128-cbc-pkcs7"

KeyLengthAny(input) == TRUE

\* public_key_bytes.try_into() to [u8; 32]
KeyLengthOk(input) == Len(input) = 32

DispatchOpenSession(s, algorithm, input) ==
  /\ SlotFree(s)
  /\ Len(sessions) + InFlight("OpenSession") < MaxSess
  /\ Dispatch(s, "OpenSession", ServicePath,
              [name |-> algorithm, input |-> input])

\* The key both sides derive (X25519, HKDF-SHA256) is fresh per session:
\* it is represented by the number of the session.
OpenSession(s) ==
  LET c == calls[s]
      id == Len(sessions) + 1
      reg(alg) ==
        /\ registry' = ServeAt(registry, Path("session", id, 0), "Session", id)
        /\ sessions' = Append(sessions, [algorithm |-> alg, id |-> id])
        /\ SetCall(s, Done(c, "Ok", [rpath |-> Path("session", id, 0)]))
  IN /\ Running(s, "OpenSession", "run")
     /\ UNCHANGED <<service, colls, items>>
     /\ CASE c.name = "plain" ->
               IF IsUtf8(c.input) /\ c.input # <<>>
               THEN /\ SetCall(s, Done(c, "InvalidArgs", <<>>))
                    /\ UNCHANGED <<registry, sessions>>
               ELSE reg(AlgPlain)
          [] c.name = DhAlgorithm ->
               IF ~KeyLengthOk(c.input)
               THEN /\ SetCall(s, Done(c, "InvalidArgs", <<>>))
                    /\ UNCHANGED <<registry, sessions>>
               ELSE reg(AlgDh(id))
          [] OTHER -> /\ SetCall(s, Done(c, "AlgorithmUnsupported", <<>>))
                      /\ UNCHANGED <<registry, sessions>>

\* ------------------------------------------- Collection.CreateItem
DispatchCreateItem(s, path, attributes, secret, replace) ==
  /\ SlotFree(s)
  /\ Len(items) + InFlight("CreateItem") < MaxItem
  /\ Dispatch(s, "CreateItem", path,
              [attrs |-> attributes, secret |-> secret, replace |-> replace])

\* Item::new, serve_at, the two signals and insert_item run under the
\* exclusive guard of the collection; Item::new takes the shared guard of
\* the session.
CreateItem(s) ==
  LET c == calls[s]
      self == colls[c.tgt]
      spath == c.secret.session
  IN /\ Running(s, "CreateItem", "run")
     /\ UNCHANGED <<service, sessions>>
     /\ IF ~HasInterface(registry, spath, "Session")
        THEN /\ SetCall(s, Done(c, SessionNotFound, <<>>))
             /\ UNCHANGED <<registry, colls, items>>
        ELSE LET sess == sessions[registry[spath].id] IN
             /\ CanLock(Obj("Session", sess.id), "r")
             /\ IF ~DecodeOk(sess, c.secret)
                THEN /\ SetCall(s, Done(c, "Panic", <<>>))
                     /\ UNCHANGED <<registry, colls, items>>
                ELSE LET id == Len(items) + 1
                         new_item ==
                           [attributes |-> c.attrs, id |-> id,
                            locked |-> TRUE,
                            parent_path |-> CollectionGetObjectPath(self),
                            secret |-> Decode(sess, c.secret)]
                         item_path == ItemGetObjectPath(new_item)
                         is_new == ServeAtAdded(registry, item_path)
                     IN /\ registry' = ServeAt(registry, item_path, "Item", id)
                        /\ items' = Append(items, new_item)
                        /\ colls' = SetColl(c.tgt,
                             insert_item(self, item_path, c.attrs, c.replace))
                        /\ SetCall(s, Done(c, "Ok",
                             [rpath |-> item_path, prompt |-> RootPath,
                              sigs |-> Emit(Emit(c.sigs,
                                 IF is_new THEN "ItemCreated"
                                 ELSE "ItemChanged", c.path),
                                 "CollectionChanged", c.path)]))

\* ------------------------------------------------------- Item.Delete
DispatchItemDelete(s, path) ==
  /\ SlotFree(s)
  /\ Dispatch(s, "ItemDelete", path, <<>>)

\* self.remove::<Item>(object_server)
ItemDeleteRemove(s) ==
  LET c == calls[s]
      item_path == ItemGetObjectPath(items[c.tgt])
  IN /\ Running(s, "ItemDelete", "run")
     /\ UNCHANGED <<service, colls, items, sessions>>
     /\ IF HasInterface(registry, item_path, "Item")
        THEN /\ registry' = Remove(registry, item_path)
             /\ SetCall(s, [c EXCEPT !.pc = "parent"])
        ELSE /\ SetCall(s, Done(c, "Failed", <<>>))
             /\ UNCHANGED registry

\* self.remove_from_parent(object_server), then the ItemDeleted signal.
ItemDeleteParent(s) ==
  LET c == calls[s]
      item == items[c.tgt]
      item_path == ItemGetObjectPath(item)
  IN /\ Running(s, "ItemDelete", "parent")
     /\ UNCHANGED <<registry, service, items, sessions>>
     /\ IF ~HasInterface(registry, item.parent_path, "Collection")
        THEN /\ SetCall(s, Done(c, "Ok", [rpath |-> RootPath]))
             /\ UNCHANGED colls
        ELSE LET pid == registry[item.parent_path].id
                 removed == item_path \in colls[pid].items
             IN /\ CanLock(Obj("Collection", pid), "w")
                /\ colls' = [colls EXCEPT ![pid].items =
                               RemoveChild(@, item_path)]
                /\ SetCall(s, Done(c, "Ok",
                     [rpath |-> RootPath,
                      sigs |-> IF removed
                               THEN Emit(c.sigs, "ItemDeleted", c.path)
                               ELSE c.sigs]))

\* ------------------------------------------------- Collection.Delete
DispatchCollectionDelete(s, path) ==
  /\ SlotFree(s)
  /\ Dispatch(s, "CollectionDelete", path, <<>>)

\* One turn of `for item in self.get_mut_children().iter()` up to the
\* item's own remove: look the item up, take its exclusive guard, and
\* unregister it (first statement of Item::delete).
CollectionDeleteItem(s) ==
  LET c == calls[s]
  IN /\ Running(s, "CollectionDelete", "run")
     /\ c.todo # {}
     /\ UNCHANGED <<service, colls, items, sessions>>
     /\ \E p \in c.todo :
          IF ~HasInterface(registry, p, "Item")
          THEN /\ SetCall(s, [c EXCEPT !.todo = @ \ {p}])
               /\ UNCHANGED registry
          ELSE LET id == registry[p].id
                   item_path == ItemGetObjectPath(items[id])
               IN /\ CanLock(Obj("Item", id), "w")
                  /\ IF HasInterface(registry, item_path, "Item")
                     THEN /\ registry' = Remove(registry, item_path)
                          /\ SetCall(s, [c EXCEPT
                               !.todo = @ \ {p}, !.cur = id, !.pc = "parent",
                               !.held = @ \cup {Held(Obj("Item", id), "w")}])
                     ELSE /\ SetCall(s, Done(c, "Failed", <<>>))
                          /\ UNCHANGED registry

\* The rest of Item::delete for the current item: remove_from_parent takes
\* the exclusive guard of the collection at the item's parent path, then
\* ItemDeleted is emitted with the item's emitter.
CollectionDeleteItemParent(s) ==
  LET c == calls[s]
      item == items[c.cur]
      item_path == ItemGetObjectPath(item)
      rel == c.held \ {Held(Obj("Item", c.cur), "w")}
  IN /\ Running(s, "CollectionDelete", "parent")
     /\ UNCHANGED <<registry, service, items, sessions>>
     /\ IF ~HasInterface(registry, item.parent_path, "Collection")
        THEN /\ SetCall(s, [c EXCEPT !.pc = "run", !.held = rel])
             /\ UNCHANGED colls
        ELSE LET pid == registry[item.parent_path].id
                 removed == item_path \in colls[pid].items
             IN /\ CanLock(Obj("Collection", pid), "w")
                /\ colls' = [colls EXCEPT ![pid].items =
                               RemoveChild(@, item_path)]
                /\ SetCall(s, [c EXCEPT !.pc = "run", !.held = rel,
                     !.sigs = IF removed
                              THEN Emit(@, "ItemDeleted", item_path)
                              ELSE @])

\* self.remove::<Collection>(object_server) after the loop.
CollectionDeleteRemove(s) ==
  LET c == calls[s]
      collection_path == CollectionGetObjectPath(colls[c.tgt])
  IN /\ Running(s, "CollectionDelete", "run")
     /\ c.todo = {}
     /\ UNCHANGED <<service, colls, items, sessions>>
     /\ IF HasInterface(registry, collection_path, "Collection")
        THEN /\ registry' = Remove(registry, collection_path)
             /\ SetCall(s, [c EXCEPT !.pc = "service"])
        ELSE /\ SetCall(s, Done(c, "Failed", <<>>))
             /\ UNCHANGED registry

\* self.remove_from_parent(object_server) on the service, then
\* CollectionDeleted.
CollectionDeleteService(s) ==
  LET c == calls[s]
      collection_path == CollectionGetObjectPath(colls[c.tgt])
      removed == collection_path \in service.collections
  IN /\ Running(s, "CollectionDelete", "service")
     /\ CanLock(ServiceObj, "w")
     /\ service' = [service EXCEPT !.collections =
                      RemoveChild(@, collection_path)]
     /\ SetCall(s, Done(c, "Ok",
          [rpath |-> RootPath,
           sigs |-> IF removed
                    THEN Emit(c.sigs, "CollectionDeleted", c.path)
                    ELSE c.sigs]))
     /\ UNCHANGED <<registry, colls, items, sessions>>

\* ------------------------------------------- Service.Lock / Unlock
DispatchLock(s, objects) ==
  /\ SlotFree(s)
  /\ Dispatch(s, "Lock", ServicePath, [paths |-> objects])

DispatchUnlock(s, objects) ==
  /\ SlotFree(s)
  /\ Dispatch(s, "Unlock", ServicePath, [paths |-> objects])

\* `for object in objects.iter()` of Service::lock (target TRUE) and of
\* Service::unlock (target FALSE): the look-up of the interface the path
\* serves, a collection before an item, or the return after the last turn.
\* The reference found is kept in the call while its guard is awaited.
LockObjects(s, op) ==
  LET c == calls[s]
      object == c.paths[c.idx]
  IN /\ Running(s, op, "run")
     /\ UNCHANGED <<registry, service, colls, items, sessions>>
     /\ IF c.idx > Len(c.paths)
        THEN SetCall(s, Done(c, "Ok", [prompt |-> RootPath]))
        ELSE IF HasInterface(registry, object, "Collection")
        THEN SetCall(s, [c EXCEPT !.cur = registry[object].id,
                                  !.pc = "collection"])
        ELSE IF HasInterface(registry, object, "Item")
        THEN SetCall(s, [c EXCEPT !.cur = registry[object].id, !.pc = "item"])
        ELSE SetCall(s, [c EXCEPT !.idx = @ + 1])

\* `collection_interface.get_mut().await` and the body of the turn.
LockCollection(s, op, target) ==
  LET c == calls[s]
      collection == colls[c.cur]
      next == [c EXCEPT !.idx = @ + 1, !.pc = "run"]
  IN /\ Running(s, op, "collection")
     /\ CanLock(Obj("Collection", c.cur), "w")
     /\ UNCHANGED <<registry, service, items, sessions>>
     /\ IF collection.locked # target
        THEN /\ colls' = [colls EXCEPT ![c.cur].locked = target]
             /\ SetCall(s, [next EXCEPT
                  !.sigs = Emit(@, "CollectionChanged", c.path),
                  !.rlist = Append(@, CollectionGetObjectPath(collection))])
        ELSE /\ SetCall(s, next)
             /\ UNCHANGED colls

\* `item_interface.get_mut().await` and the body of the turn.
LockItem(s, op, target) ==
  LET c == calls[s]
      item == items[c.cur]
      next == [c EXCEPT !.idx = @ + 1, !.pc = "run"]
  IN /\ Running(s, op, "item")
     /\ CanLock(Obj("Item", c.cur), "w")
     /\ UNCHANGED <<registry, service, colls, sessions>>
     /\ IF item.locked # target
        THEN /\ items' = [items EXCEPT ![c.cur].locked = target]
             /\ SetCall(s, [next EXCEPT
                  !.sigs = Emit(@, "ItemChanged", c.path),
                  !.rlist = Append(@, ItemGetObjectPath(item))])
        ELSE /\ SetCall(s, next)
             /\ UNCHANGED items

Lock(s) ==
  \/ LockObjects(s, "Lock")
  \/ LockCollection(s, "Lock", TRUE)
  \/ LockItem(s, "Lock", TRUE)

Unlock(s) ==
  \/ LockObjects(s, "Unlock")
  \/ LockCollection(s, "Unlock", FALSE)
  \/ LockItem(s, "Unlock", FALSE)

\* ------------------------------------------------ Service.GetSecrets
DispatchGetSecrets(s, item_paths, session) ==
  /\ SlotFree(s)
  /\ Dispatch(s, "GetSecrets", ServicePath,
              [paths |-> item_paths, apath |-> session])

\* The session is looked up and copied out of its shared guard.
GetSecretsSession(s) ==
  LET c == calls[s]
  IN /\ Running(s, "GetSecrets", "run")
     /\ UNCHANGED <<registry, service, colls, items, sessions>>
     /\ IF ~HasInterface(registry, c.apath, "Session")
        THEN SetCall(s, Done(c, SessionNotFound, <<>>))
        ELSE /\ CanLock(Obj("Session", registry[c.apath].id), "r")
             /\ SetCall(s, [c EXCEPT !.sess = registry[c.apath].id,
                                     !.pc = "items"])

\* The task of one requested path up to the guard of the item; the tasks
\* are run one after the other in the order of the request.
GetSecretsItem(s) ==
  LET c == calls[s]
      item_path == c.paths[c.idx]
      next == [c EXCEPT !.idx = @ + 1]
  IN /\ Running(s, "GetSecrets", "items")
     /\ UNCHANGED <<registry, service, colls, items, sessions>>
     /\ IF c.idx > Len(c.paths)
        THEN SetCall(s, Done(c, "Ok", <<>>))
        ELSE IF ~HasInterface(registry, item_path, "Item")
        THEN SetCall(s, next)
        ELSE LET id == registry[item_path].id
             IN /\ CanLock(Obj("Item", id), "r")
                /\ IF items[id].locked
                   THEN SetCall(s, next)
                   ELSE SetCall(s, [c EXCEPT !.cur = id, !.pc = "parent",
                          !.held = @ \cup {Held(Obj("Item", id), "r")}])

\* `if collection.locked { return None; }`
CollectionGateOpen(collection) == FALSE

CollectionGate(collection) == collection.locked

\* The rest of the task: the parent collection and its locked flag.
GetSecretsParent(s) ==
  LET c == calls[s]
      item == items[c.cur]
      next == [c EXCEPT !.idx = @ + 1, !.pc = "items",
                        !.held = @ \ {Held(Obj("Item", c.cur), "r")}]
  IN /\ Running(s, "GetSecrets", "parent")
     /\ UNCHANGED <<registry, service, colls, items, sessions>>
     /\ IF ~HasInterface(registry, item.parent_path, "Collection")
        THEN SetCall(s, next)
        ELSE LET pid == registry[item.parent_path].id
             IN /\ CanLock(Obj("Collection", pid), "r")
                /\ IF CollectionGate(colls[pid])
                   THEN SetCall(s, next)
                   ELSE SetCall(s, [next EXCEPT !.rmap =
                          [p \in DOMAIN @ \cup {ItemGetObjectPath(item)} |->
                             IF p = ItemGetObjectPath(item)
                             THEN get_secret_with_session(item,
                                                          sessions[c.sess])
                             ELSE @[p]]])

\* ----------------------------------------------- Service.SearchItems
DispatchSearchItems(s, attributes) ==
  /\ SlotFree(s)
  /\ Dispatch(s, "SearchItems", ServicePath, [attrs |-> attributes])

\* One turn of `for collection_path in self.collections.iter()` up to the
\* call of collection.search_items, or the return after the last turn.
SearchItemsCollection(s) ==
  LET c == calls[s]
  IN /\ Running(s, "SearchItems", "run")
     /\ UNCHANGED <<registry, service, colls, items, sessions>>
     /\ IF c.todo = {}
        THEN SetCall(s, Done(c, "Ok", <<>>))
        ELSE \E collection_path \in c.todo :
               IF ~HasInterface(registry, collection_path, "Collection")
               THEN SetCall(s, [c EXCEPT !.todo = @ \ {collection_path}])
               ELSE LET id == registry[collection_path].id
                    IN /\ CanLock(Obj("Collection", id), "r")
                       /\ SetCall(s, [c EXCEPT
                            !.todo = @ \ {collection_path},
                            !.found = search_items(colls[id], c.attrs),
                            !.cur = id, !.pc = "items",
                            !.held = @ \cup {Held(Obj("Collection", id), "r")}])

\* The partition of one matching item by its locked flag.
PartitionSwapped(item_locked, unlocked, locked, path) ==
  IF item_locked
  THEN [unlocked |-> Append(unlocked, path), locked |-> locked]
  ELSE [unlocked |-> unlocked, locked |-> Append(locked, path)]

Partition(item_locked, unlocked, locked, path) ==
  IF item_locked
  THEN [unlocked |-> unlocked, locked |-> Append(locked, path)]
  ELSE [unlocked |-> Append(unlocked, path), locked |-> locked]

\* One turn of the inner loop over the matches of the current collection.
SearchItemsItem(s) ==
  LET c == calls[s]
  IN /\ Running(s, "SearchItems", "items")
     /\ UNCHANGED <<registry, service, colls, items, sessions>>
     /\ IF c.found = {}
        THEN SetCall(s, [c EXCEPT !.pc = "run",
               !.held = @ \ {Held(Obj("Collection", c.cur), "r")}])
        ELSE \E item_path \in c.found :
               IF ~HasInterface(registry, item_path, "Item")
               THEN SetCall(s, [c EXCEPT !.found = @ \ {item_path}])
               ELSE LET id == registry[item_path].id
                        r == Partition(items[id].locked, c.rlist, c.rlist2,
                                       ItemGetObjectPath(items[id]))
                    IN /\ CanLock(Obj("Item", id), "r")
                       /\ SetCall(s, [c EXCEPT !.found = @ \ {item_path},
                            !.rlist = r.unlocked, !.rlist2 = r.locked])

\* -------------------------------------------- Collection.SearchItems
SeqsOf(S) ==
  {q \in [1..Cardinality(S) -> S] : {q[k] : k \in 1..Cardinality(S)} = S}

Range(q) == {q[k] : k \in 1..Len(q)}

DispatchCollectionSearchItems(s, path, attributes) ==
  /\ SlotFree(s)
  /\ Dispatch(s, "CollectionSearchItems", path, [attrs |-> attributes])

\* The result lists the matches in the iteration order of a HashMap.
CollectionSearchItems(s) ==
  LET c == calls[s]
  IN /\ Running(s, "CollectionSearchItems", "run")
     /\ UNCHANGED <<registry, service, colls, items, sessions>>
     /\ \E q \in SeqsOf(search_items(colls[c.tgt], c.attrs)) :
          SetCall(s, Done(c, "Ok", [rlist |-> q]))

\* ----------------------------------- Collection.Items (property get)
DispatchCollectionItems(s, path) ==
  /\ SlotFree(s)
  /\ Dispatch(s, "CollectionItems", path, <<>>)

\* The child set in the iteration order of a HashSet.  The call record also
\* keeps which of the paths no item was registered at when they were read.
CollectionItems(s) ==
  LET c == calls[s]
      children == colls[c.tgt].items
  IN /\ Running(s, "CollectionItems", "run")
     /\ UNCHANGED <<registry, service, colls, items, sessions>>
     /\ \E q \in SeqsOf(children) :
          SetCall(s, Done(c, "Ok",
            [rlist |-> q,
             stale |-> {p \in children : ~HasInterface(registry, p, "Item")}]))

\* ------------------------------------------------- Item.GetSecret
DispatchGetSecret(s, path, session) ==
  /\ SlotFree(s)
  /\ Dispatch(s, "GetSecret", path, [apath |-> session])

GetSecret(s) ==
  LET c == calls[s]
  IN /\ Running(s, "GetSecret", "run")
     /\ UNCHANGED <<registry, service, colls, items, sessions>>
     /\ IF ~HasInterface(registry, c.apath, "Session")
        THEN SetCall(s, Done(c, SessionNotFound, <<>>))
        ELSE LET sess == sessions[registry[c.apath].id]
             IN /\ CanLock(Obj("Session", sess.id), "r")
                /\ SetCall(s, Done(c, "Ok",
                     [rsecret |-> get_secret_with_session(items[c.tgt], sess)]))

\* ------------------------------------------------- Item.SetSecret
DispatchSetSecret(s, path, secret) ==
  /\ SlotFree(s)
  /\ Dispatch(s, "SetSecret", path, [secret |-> secret])

SetSecret(s) ==
  LET c == calls[s]
  IN /\ Running(s, "SetSecret", "run")
     /\ UNCHANGED <<registry, service, colls, sessions>>
     /\ IF ~HasInterface(registry, c.secret.session, "Session")
        THEN /\ SetCall(s, Done(c, SessionNotFound, <<>>))
             /\ UNCHANGED items
        ELSE LET sess == sessions[registry[c.secret.session].id]
             IN /\ CanLock(Obj("Session", sess.id), "r")
                /\ IF ~DecodeOk(sess, c.secret)
                   THEN /\ SetCall(s, Done(c, "Panic", <<>>))
                        /\ UNCHANGED items
                   ELSE /\ items' = [items EXCEPT ![c.tgt] =
                             set_secret_with_session(@, c.secret, sess)]
                        /\ SetCall(s, Done(c, "Ok",
                             [sigs |-> Emit(c.sigs, "ItemChanged", c.path)]))

\* ------------------------------------- Item.Attributes (property set)
DispatchSetAttributes(s, path, value) ==
  /\ SlotFree(s)
  /\ Dispatch(s, "SetAttributes", path, [attrs |-> value])

SetAttributes(s) ==
  LET c == calls[s]
  IN /\ Running(s, "SetAttributes", "run")
     /\ items' = [items EXCEPT ![c.tgt].attributes = c.attrs]
     /\ SetCall(s, Done(c, "Ok", <<>>))
     /\ UNCHANGED <<registry, service, colls, sessions>>

\* --------------------------------------------------- Session.Close
DispatchClose(s, path) ==
  /\ SlotFree(s)
  /\ Dispatch(s, "Close", path, <<>>)

Close(s) ==
  LET c == calls[s]
      session_path == SessionGetObjectPath(sessions[c.tgt])
  IN /\ Running(s, "Close", "run")
     /\ UNCHANGED <<service, colls, items, sessions>>
     /\ IF HasInterface(registry, session_path, "Session")
        THEN /\ registry' = Remove(registry, session_path)
             /\ SetCall(s, Done(c, "Ok", <<>>))
        ELSE /\ SetCall(s, Done(c, "Failed", <<>>))
             /\ UNCHANGED registry

\* ------------------------------------- Service.ReadAlias / SetAlias
DispatchReadAlias(s, name) ==
  /\ SlotFree(s)
  /\ Dispatch(s, "ReadAlias", ServicePath, [name |-> name])

read_alias_root(aliases, name) == RootPath

\* Service::read_alias
read_alias(aliases, name) ==
  IF name \in DOMAIN aliases THEN aliases[name] ELSE RootPath

ReadAlias(s) ==
  LET c == calls[s]
  IN /\ Running(s, "ReadAlias", "run")
     /\ SetCall(s, Done(c, "Ok", [rpath |-> read_alias(service.aliases, c.name)]))
     /\ UNCHANGED <<registry, service, colls, items, sessions>>

DispatchSetAlias(s, name, collection) ==
  /\ SlotFree(s)
  /\ Dispatch(s, "SetAlias", ServicePath, [name |-> name, apath |-> collection])

SetAlias(s) ==
  LET c == calls[s]
      name == c.name
  IN /\ Running(s, "SetAlias", "run")
     /\ UNCHANGED <<registry, items, sessions>>
     /\ IF c.apath = RootPath
        THEN IF name \in DOMAIN service.aliases
             THEN LET collection_path == service.aliases[name]
                  IN IF ~HasInterface(registry, collection_path, "Collection")
                     THEN /\ SetCall(s, Done(c, "Failed", <<>>))
                          /\ UNCHANGED <<service, colls>>
                     ELSE LET id == registry[collection_path].id
                          IN /\ CanLock(Obj("Collection", id), "w")
                             /\ colls' = [colls EXCEPT ![id].alias = NoAlias]
                             /\ service' = [service EXCEPT !.aliases =
                                              AliasesRemove(@, name)]
                             /\ SetCall(s, Done(c, "Ok", <<>>))
             ELSE /\ SetCall(s, Done(c, "NoSuchObject", <<>>))
                  /\ UNCHANGED <<service, colls>>
        ELSE IF ~HasInterface(registry, c.apath, "Collection")
             THEN /\ SetCall(s, Done(c, "Failed", <<>>))
                  /\ UNCHANGED <<service, colls>>
             ELSE LET id == registry[c.apath].id
                      collection == [colls[id] EXCEPT !.alias = name]
                  IN /\ CanLock(Obj("Collection", id), "w")
                     /\ colls' = SetColl(id, collection)
                     /\ service' = [service EXCEPT !.aliases =
                          AliasesInsert(AliasesRemove(@, name), name,
                                        CollectionGetObjectPath(collection))]
                     /\ SetCall(s, Done(c, "Ok", <<>>))

\* ------------------------------------------------ guards awaited
\* The guards the next step of a call awaits: the guard of its target when
\* it is dispatched, and in a handler the guard of the interface it has
\* looked up or is about to look up.  A step that finds no interface at the
\* path awaits nothing.
Wants(s) ==
  LET c == calls[s]
      at(p, kind, mode) ==
        IF HasInterface(registry, p, kind)
        THEN {Held(Obj(kind, registry[p].id), mode)} ELSE {}
  IN CASE c.pc = "wait" -> {Held(Obj(OpKind(c.op), c.tgt), OpMode(c.op))}
       [] c.pc = "run" /\ c.op \in {"CreateItem", "SetSecret"} ->
            at(c.secret.session, "Session", "r")
       [] c.pc = "run" /\ c.op \in {"GetSecret", "GetSecrets"} ->
            at(c.apath, "Session", "r")
       [] c.pc = "parent" /\ c.op = "ItemDelete" ->
            at(items[c.tgt].parent_path, "Collection", "w")
       [] c.pc = "run" /\ c.op = "CollectionDelete" ->
            UNION {at(p, "Item", "w") : p \in c.todo}
       [] c.pc = "parent" /\ c.op = "CollectionDelete" ->
            at(items[c.cur].parent_path, "Collection", "w")
       [] c.pc = "service" /\ c.op = "CollectionDelete" ->
            {Held(ServiceObj, "w")}
       [] c.pc = "collection" /\ c.op \in {"Lock", "Unlock"} ->
            {Held(Obj("Collection", c.cur), "w")}
       [] c.pc = "item" /\ c.op \in {"Lock", "Unlock"} ->
            {Held(Obj("Item", c.cur), "w")}
       [] c.pc = "items" /\ c.op = "GetSecrets" /\ c.idx <= Len(c.paths) ->
            at(c.paths[c.idx], "Item", "r")
       [] c.pc = "parent" /\ c.op = "GetSecrets" ->
            at(items[c.cur].parent_path, "Collection", "r")
       [] c.pc = "run" /\ c.op = "SearchItems" ->
            UNION {at(p, "Collection", "r") : p \in c.todo}
       [] c.pc = "items" /\ c.op = "SearchItems" ->
            UNION {at(p, "Item", "r") : p \in c.found}
       [] c.pc = "run" /\ c.op = "SetAlias" ->
            IF c.apath # RootPath THEN at(c.apath, "Collection", "w")
            ELSE IF c.name \in DOMAIN service.aliases
            THEN at(service.aliases[c.name], "Collection", "w") ELSE {}
       [] OTHER -> {}

\* The position of a kind of object from the outside in.
Rank(kind) ==
  CASE kind = "Service" -> 1
    [] kind = "Collection" -> 2
    [] kind = "Item" -> 3
    [] OTHER -> 4

\* ------------------------------------------------------ client inputs
Aliases == {"", "mine", "default"}

AttrA == <<"a", "1">>

AttrB == <<"b", "2">>

AttrSets == {{}, {AttrA}, {AttrA, AttrB}}

Value1 == <<115>>

Value2 == <<116>>

ClientIv == FixedIv + 1

BogusPath == Path("collection", 0, 0)

CollectionPaths == {DefaultPath} \cup {Path("collection", k, 0) : k \in 1..MaxColl}

\* The item paths handed out so far.
ItemPaths == {ItemGetObjectPath(items[k]) : k \in 1..Len(items)}

SessionPaths == {Path("session", k, 0) : k \in 1..MaxSess}

\* A well-formed envelope for the session at a path: the value itself for a
\* plain (or unknown) session, the client's ciphertext under the session
\* key and a client-chosen IV for a Dh session.
ClientSecret(session_path, v) ==
  IF session_path.cid \in 1..Len(sessions)
     /\ is_encrypted(sessions[session_path.cid])
  THEN Secret(session_path,
              [enc |-> TRUE, key |-> sessions[session_path.cid].algorithm.aes_key,
               iv |-> ClientIv, data |-> v], ClientIv)
  ELSE Secret(session_path, PlainBytes(v), 0)

\* The lists of object paths a client passes to Lock, Unlock and
\* GetSecrets: at most MaxObjects paths, repetitions allowed.
MaxObjects == 2

KnownPaths == {p \in CollectionPaths : p \in DOMAIN registry}
                \cup ItemPaths \cup {BogusPath}

ObjectLists ==
  UNION {[1..n -> KnownPaths] : n \in 0..MaxObjects}

DhInput == [k \in 1..32 |-> 9]

\* An envelope no session can decode: bytes that are neither valid UTF-8
\* nor a ciphertext.
BadSecret(session_path) == Secret(session_path, PlainBytes(<<200>>), 0)

\* What the client reads out of a returned envelope: the value as it is
\* under a plain session, the decryption of the value under the session key
\* and the returned IV under a Dh session.
ClientDecodeOk(sess, secret) ==
  IF is_encrypted(sess)
  THEN DecryptOk(sess.algorithm, secret.value, secret.parameters)
  ELSE ~secret.value.enc

ClientDecode(sess, secret) ==
  IF is_encrypted(sess)
  THEN decrypt(sess.algorithm, secret.value, secret.parameters)
  ELSE secret.value.data

\* --------------------------------------------------- specifications
\* Every specification runs one call at a time in slot 1: a call is
\* dispatched when the previous one has returned.

\* Aliases and collections.
NextAlias ==
  \/ \E a \in Aliases : DispatchCreateCollection(1, a)
  \/ \E n \in {"mine", "default"}, p \in CollectionPaths \cup {RootPath} :
       DispatchSetAlias(1, n, p)
  \/ \E n \in {"mine", "default"} : DispatchReadAlias(1, n)
  \/ \E p \in CollectionPaths : DispatchCollectionDelete(1, p)
  \/ Acquire(1)
  \/ CreateCollection(1)
  \/ SetAlias(1)
  \/ ReadAlias(1)
  \/ CollectionDeleteRemove(1)
  \/ CollectionDeleteService(1)

SpecAlias == Init /\ [][NextAlias]_vars

\* The steps of the handlers, which the runtime keeps scheduling.
DeleteSteps ==
  \/ Acquire(1)
  \/ OpenSession(1)
  \/ CreateItem(1)
  \/ ItemDeleteRemove(1)
  \/ ItemDeleteParent(1)
  \/ CollectionDeleteItem(1)
  \/ CollectionDeleteItemParent(1)
  \/ CollectionDeleteRemove(1)
  \/ CollectionDeleteService(1)
  \/ CreateCollection(1)
  \/ SetAlias(1)

\* Items and the deletion of items and collections.
NextDelete ==
  \/ DispatchOpenSession(1, "plain", <<>>)
  \/ \E p \in CollectionPaths, a \in {{}, {AttrA}} :
       DispatchCreateItem(1, p, a, ClientSecret(Path("session", 1, 0), Value1),
                          FALSE)
  \/ \E p \in ItemPaths : DispatchItemDelete(1, p)
  \/ \E p \in CollectionPaths : DispatchCollectionDelete(1, p)
  \/ \E a \in {""} : DispatchCreateCollection(1, a)
  \/ \E p \in CollectionPaths : DispatchSetAlias(1, "default", p)
  \/ DeleteSteps

SpecDelete == Init /\ [][NextDelete]_vars

FairSpecDelete == SpecDelete /\ WF_vars(DeleteSteps)

\* Searching a collection: items with different attribute sets, the calls
\* that delete them or rewrite their attributes, and Collection.SearchItems.
NextSearch ==
  \/ sessions = <<>> /\ DispatchOpenSession(1, "plain", <<>>)
  \/ \E a \in {""} : DispatchCreateCollection(1, a)
  \/ \E p \in CollectionPaths, a \in AttrSets :
       DispatchCreateItem(1, p, a, ClientSecret(Path("session", 1, 0), Value1),
                          FALSE)
  \/ \E p \in ItemPaths : DispatchItemDelete(1, p)
  \/ \E p \in ItemPaths, a \in {{AttrA}} : DispatchSetAttributes(1, p, a)
  \/ \E p \in CollectionPaths, a \in AttrSets :
       DispatchCollectionSearchItems(1, p, a)
  \/ Acquire(1)
  \/ OpenSession(1)
  \/ CreateCollection(1)
  \/ CreateItem(1)
  \/ ItemDeleteRemove(1)
  \/ ItemDeleteParent(1)
  \/ SetAttributes(1)
  \/ CollectionSearchItems(1)

SpecSearch == Init /\ [][NextSearch]_vars

\* Locking: Lock, Unlock, GetSecrets and Service.SearchItems over the
\* default collection and its items, with the alias of the collection being
\* cleared and set again.
NextLock ==
  \/ sessions = <<>> /\ DispatchOpenSession(1, "plain", <<>>)
  \/ DispatchCreateItem(1, DefaultPath, {AttrA},
                        ClientSecret(Path("session", 1, 0), Value1), FALSE)
  \/ \E p \in ItemPaths : DispatchItemDelete(1, p)
  \/ \E p \in {RootPath, DefaultPath} : DispatchSetAlias(1, "default", p)
  \/ \E l \in ObjectLists : DispatchLock(1, l)
  \/ \E l \in ObjectLists : DispatchUnlock(1, l)
  \/ \E l \in ObjectLists : DispatchGetSecrets(1, l, Path("session", 1, 0))
  \/ DispatchSearchItems(1, {AttrA})
  \/ Acquire(1)
  \/ OpenSession(1)
  \/ CreateItem(1)
  \/ ItemDeleteRemove(1)
  \/ ItemDeleteParent(1)
  \/ SetAlias(1)
  \/ Lock(1)
  \/ Unlock(1)
  \/ GetSecretsSession(1)
  \/ GetSecretsItem(1)
  \/ GetSecretsParent(1)
  \/ SearchItemsCollection(1)
  \/ SearchItemsItem(1)

SpecLock == Init /\ [][NextLock]_vars

\* Secrets: plain and Dh sessions, items created through them, and the
\* secret of an item read and written through either kind of session.
NextSecret ==
  \/ \E a \in {"plain", DhAlgorithm} :
       DispatchOpenSession(1, a, IF a = "plain" THEN <<>> ELSE DhInput)
  \/ \E sp \in SessionPaths, v \in {Value1, Value2} :
       DispatchCreateItem(1, DefaultPath, {}, ClientSecret(sp, v), FALSE)
  \/ \E p \in ItemPaths, sp \in SessionPaths : DispatchGetSecret(1, p, sp)
  \/ \E p \in ItemPaths, sp \in SessionPaths :
       \E x \in {ClientSecret(sp, Value1), ClientSecret(sp, Value2),
                  BadSecret(sp)} :
         DispatchSetSecret(1, p, x)
  \/ \E sp \in SessionPaths : DispatchClose(1, sp)
  \/ Acquire(1)
  \/ OpenSession(1)
  \/ CreateItem(1)
  \/ GetSecret(1)
  \/ SetSecret(1)
  \/ Close(1)

SpecSecret == Init /\ [][NextSecret]_vars

\* Sessions: sessions are opened and closed while items are created, read
\* and written through them.
NextSession ==
  \/ \E a \in {"plain", DhAlgorithm} :
       DispatchOpenSession(1, a, IF a = "plain" THEN <<>> ELSE DhInput)
  \/ \E sp \in SessionPaths :
       DispatchCreateItem(1, DefaultPath, {}, ClientSecret(sp, Value1), FALSE)
  \/ \E sp \in SessionPaths : DispatchClose(1, sp)
  \/ \E p \in ItemPaths, sp \in SessionPaths : DispatchGetSecret(1, p, sp)
  \/ \E p \in ItemPaths, sp \in SessionPaths :
       DispatchSetSecret(1, p, ClientSecret(sp, Value2))
  \/ \E p \in ItemPaths, sp \in SessionPaths :
       DispatchGetSecrets(1, <<p>>, sp)
  \/ \E p \in ItemPaths \cup {DefaultPath} : DispatchUnlock(1, <<p>>)
  \/ Acquire(1)
  \/ OpenSession(1)
  \/ CreateItem(1)
  \/ Close(1)
  \/ GetSecret(1)
  \/ SetSecret(1)
  \/ GetSecretsSession(1)
  \/ GetSecretsItem(1)
  \/ GetSecretsParent(1)
  \/ Unlock(1)

SpecSession == Init /\ [][NextSession]_vars

\* A reader against the writers: slot 1 creates and deletes items and
\* collections while slot 2 reads the Items property of the default
\* collection, every step of one call interleaved with the steps of the other.
NextRace ==
  \/ sessions = <<>> /\ DispatchOpenSession(1, "plain", <<>>)
  \/ DispatchCreateItem(1, DefaultPath, {},
                        ClientSecret(Path("session", 1, 0), Value1), FALSE)
  \/ \E p \in ItemPaths : DispatchItemDelete(1, p)
  \/ DispatchCollectionDelete(1, DefaultPath)
  \/ DispatchSetAlias(1, "default", RootPath)
  \/ DispatchCollectionItems(2, DefaultPath)
  \/ Acquire(1)
  \/ OpenSession(1)
  \/ CreateItem(1)
  \/ ItemDeleteRemove(1)
  \/ ItemDeleteParent(1)
  \/ CollectionDeleteItem(1)
  \/ CollectionDeleteItemParent(1)
  \/ CollectionDeleteRemove(1)
  \/ CollectionDeleteService(1)
  \/ SetAlias(1)
  \/ Acquire(2)
  \/ CollectionItems(2)

SpecRace == Init /\ [][NextRace]_vars

\* Replacing: items of the default collection created with and without
\* replace, over every attribute set, and searched for.
NextReplace ==
  \/ sessions = <<>> /\ DispatchOpenSession(1, "plain", <<>>)
  \/ \E a \in AttrSets, r \in BOOLEAN :
       DispatchCreateItem(1, DefaultPath, a,
                          ClientSecret(Path("session", 1, 0), Value1), r)
  \/ \E a \in AttrSets : DispatchCollectionSearchItems(1, DefaultPath, a)
  \/ Acquire(1)
  \/ OpenSession(1)
  \/ CreateItem(1)
  \/ CollectionSearchItems(1)

SpecReplace == Init /\ [][NextReplace]_vars

\* Opening sessions: every algorithm string and every kind of input, with
\* items created through the sessions that exist and through paths that
\* serve no session.
Algorithms == {"plain", DhAlgorithm, "aes"}

OpenInputs == {<<>>, <<65>>, <<200>>, DhInput}

NextOpen ==
  \/ \E a \in Algorithms, i \in OpenInputs : DispatchOpenSession(1, a, i)
  \/ \E sp \in SessionPaths :
       \E x \in {ClientSecret(sp, Value1), BadSecret(sp)} :
         DispatchCreateItem(1, DefaultPath, {}, x, FALSE)
  \/ \E a \in {"", "mine"} : DispatchCreateCollection(1, a)
  \/ \E sp \in SessionPaths : DispatchClose(1, sp)
  \/ Acquire(1)
  \/ OpenSession(1)
  \/ CreateItem(1)
  \/ CreateCollection(1)
  \/ Close(1)

SpecOpen == Init /\ [][NextOpen]_vars

\* Fresh collections: Lock is called on the path a CreateCollection has just
\* returned, and on nothing else; Unlock is called on items and on the
\* default collection only, so that no Lock or Unlock precedes the Lock on
\* a new collection.
NextFresh ==
  \/ sessions = <<>> /\ DispatchOpenSession(1, "plain", <<>>)
  \/ \E a \in {""} : DispatchCreateCollection(1, a)
  \/ \E p \in CollectionPaths, a \in {{}, {AttrA}} :
       DispatchCreateItem(1, p, a, ClientSecret(Path("session", 1, 0), Value1),
                          FALSE)
  \/ /\ calls[1].op = "CreateCollection" /\ calls[1].ret = "Ok"
     /\ DispatchLock(1, <<calls[1].rpath>>)
  \/ \E p \in ItemPaths \cup {DefaultPath} : DispatchUnlock(1, <<p>>)
  \/ Acquire(1)
  \/ OpenSession(1)
  \/ CreateCollection(1)
  \/ CreateItem(1)
  \/ Lock(1)
  \/ Unlock(1)

SpecFresh == Init /\ [][NextFresh]_vars

\* Service calls against deletions: slot 1 runs Lock and Unlock on the
\* default collection and on its items while slot 2 creates items, changes
\* the alias of the collection and deletes it, the steps of the two calls
\* interleaved.
NextConcurrent ==
  \/ \E p \in ItemPaths \cup {DefaultPath} : DispatchLock(1, <<p>>)
  \/ \E p \in ItemPaths \cup {DefaultPath} : DispatchUnlock(1, <<p>>)
  \/ sessions = <<>> /\ DispatchOpenSession(2, "plain", <<>>)
  \/ DispatchCreateItem(2, DefaultPath, {},
                        ClientSecret(Path("session", 1, 0), Value1), FALSE)
  \/ DispatchSetAlias(2, "default", RootPath)
  \/ DispatchCollectionDelete(2, DefaultPath)
  \/ Acquire(1)
  \/ Lock(1)
  \/ Unlock(1)
  \/ Acquire(2)
  \/ OpenSession(2)
  \/ CreateItem(2)
  \/ SetAlias(2)
  \/ CollectionDeleteItem(2)
  \/ CollectionDeleteItemParent(2)
  \/ CollectionDeleteRemove(2)
  \/ CollectionDeleteService(2)

SpecConcurrent == Init /\ [][NextConcurrent]_vars

\* A late CreateItem: slot 2 creates items in the default collection while
\* slot 1 changes its alias and deletes it, so that a CreateItem dispatched
\* before the deletion can enter its handler after it.
NextLate ==
  \/ sessions = <<>> /\ DispatchOpenSession(1, "plain", <<>>)
  \/ DispatchSetAlias(1, "default", RootPath)
  \/ DispatchCollectionDelete(1, DefaultPath)
  \/ DispatchCreateItem(2, DefaultPath, {},
                        ClientSecret(Path("session", 1, 0), Value1), FALSE)
  \/ Acquire(1)
  \/ OpenSession(1)
  \/ SetAlias(1)
  \/ CollectionDeleteItem(1)
  \/ CollectionDeleteItemParent(1)
  \/ CollectionDeleteRemove(1)
  \/ CollectionDeleteService(1)
  \/ Acquire(2)
  \/ CreateItem(2)

SpecLate == Init /\ [][NextLate]_vars

\* Two CreateCollection calls at once: while a CreateCollection of slot 1 is
\* in flight, slot 2 is given a CreateCollection with the same alias.
NextCreate ==
  \/ \E a \in {"mine", "default"} : DispatchCreateCollection(1, a)
  \/ \E n \in {"mine", "default"} : DispatchReadAlias(1, n)
  \/ /\ calls[1].op = "CreateCollection" /\ calls[1].pc \in {"wait", "run"}
     /\ DispatchCreateCollection(2, calls[1].name)
  \/ Acquire(1)
  \/ CreateCollection(1)
  \/ ReadAlias(1)
  \/ Acquire(2)
  \/ CreateCollection(2)

SpecCreate == Init /\ [][NextCreate]_vars

\* ------------------------------------------------------------ claims
Returned(s, op) ==
  calls[s].pc = "done" /\ calls[s].op = op /\ calls[s].ret # "UnknownObject"

NItemDeleted(n) == [k \in 1..n |-> "ItemDeleted"]

SigNames(sigs) == [k \in 1..Len(sigs) |-> sigs[k].name]

\* C2: a Collection.Delete that entered its handler on a collection with N
\* child items returns, having emitted N ItemDeleted and then one
\* CollectionDeleted, with none of the N item paths nor the collection path
\* registered.
C2_CascadeDelete ==
  (calls[1].op = "CollectionDelete" /\ calls[1].pc = "run")
    ~> (/\ Returned(1, "CollectionDelete")
        /\ LET c == calls[1]
               children == c.pre.colls[c.tgt].items
           IN /\ SigNames(c.sigs) =
                   Append(NItemDeleted(Cardinality(children)),
                          "CollectionDeleted")
              /\ \A p \in children \cup {c.path} : p \notin DOMAIN registry)

\* C3: Collection.SearchItems(A) returns exactly the paths of the items of
\* the collection whose attribute set equals A.
C3_SearchItemsExact ==
  Returned(1, "CollectionSearchItems") =>
    LET c == calls[1]
    IN Range(c.rlist) =
         {p \in colls[c.tgt].items :
            /\ HasInterface(registry, p, "Item")
            /\ items[registry[p].id].attributes = c.attrs}

\* C4: Service.GetSecrets with a live session succeeds and the keys of the
\* returned map are exactly the requested paths that are registered items
\* with locked = false whose parent path is a registered collection with
\* locked = false; each value is the secret of the item through the session.
C4_GetSecretsKeys ==
  Returned(1, "GetSecrets")
  /\ HasInterface(calls[1].pre.registry, calls[1].apath, "Session") =>
    LET c == calls[1]
        passes(p) ==
          /\ HasInterface(registry, p, "Item")
          /\ ~items[registry[p].id].locked
          /\ LET parent == items[registry[p].id].parent_path
             IN /\ HasInterface(registry, parent, "Collection")
                /\ ~colls[registry[parent].id].locked
    IN /\ c.ret = "Ok"
       /\ DOMAIN c.rmap = {p \in Range(c.paths) : passes(p)}
       /\ \A p \in DOMAIN c.rmap :
            c.rmap[p] = get_secret_with_session(items[registry[p].id],
                                                sessions[registry[c.apath].id])

C4_Witness ==
  /\ Returned(1, "GetSecrets")
  /\ calls[1].ret = "Ok"
  /\ Len(calls[1].paths) = 2
  /\ Cardinality(DOMAIN calls[1].rmap) = 1
  /\ \E k \in 1..2 :
       /\ HasInterface(registry, calls[1].paths[k], "Item")
       /\ items[registry[calls[1].paths[k]].id].locked

\* C5: when Service.Lock has returned, every live item it named is locked;
\* an item that is locked is in no GetSecrets result and in no unlocked list
\* of Service.SearchItems; and the locked flag of an item is only cleared by
\* an Unlock call that names the item.
C5_LockedStaysHidden ==
  /\ [](Returned(1, "Lock") =>
         \A p \in Range(calls[1].paths) :
           HasInterface(registry, p, "Item") => items[registry[p].id].locked)
  /\ [](\A id \in 1..Len(items) :
         items[id].locked =>
           /\ calls[1].op = "GetSecrets" =>
                ItemGetObjectPath(items[id]) \notin DOMAIN calls[1].rmap
           /\ calls[1].op = "SearchItems" =>
                ItemGetObjectPath(items[id]) \notin Range(calls[1].rlist))
  /\ [][\A id \in 1..Len(items) :
          items[id].locked /\ ~items'[id].locked =>
            /\ Running(1, "Unlock", "item")
            /\ ItemGetObjectPath(items[id]) \in Range(calls[1].paths)]_vars

C5_Witness ==
  /\ Returned(1, "Lock")
  /\ \E p \in Range(calls[1].rlist) :
       /\ HasInterface(registry, p, "Item")
       /\ ~calls[1].pre.items[registry[p].id].locked
       /\ items[registry[p].id].locked

\* C6: Service.Lock (Unlock) returns Ok with prompt '/', leaves every named
\* live collection or item with locked = true (false), returns exactly the
\* named paths whose flag differed before the call, and emits one signal per
\* returned path.
C6_LockReturnsChanged ==
  \A op \in {"Lock", "Unlock"} :
    Returned(1, op) =>
      LET c == calls[1]
          target == (op = "Lock")
          live(p) == \/ HasInterface(registry, p, "Collection")
                     \/ HasInterface(registry, p, "Item")
          flag(cs, is, p) == IF registry[p].kind = "Collection"
                             THEN cs[registry[p].id].locked
                             ELSE is[registry[p].id].locked
      IN /\ c.ret = "Ok"
         /\ c.prompt = RootPath
         /\ \A p \in Range(c.paths) : live(p) => flag(colls, items, p) = target
         /\ Range(c.rlist) =
              {p \in Range(c.paths) :
                 live(p) /\ flag(c.pre.colls, c.pre.items, p) # target}
         /\ Len(c.rlist) = Cardinality(Range(c.rlist))
         /\ Len(c.sigs) = Len(c.rlist)

\* C8: through a plain session S, reading back an item that CreateItem
\* stored from the value V yields the envelope (S, V, empty parameters), and
\* Item.GetSecret(S) returns that envelope for the plaintext the item holds.
C8_PlainRoundTrip ==
  /\ Returned(1, "CreateItem") /\ calls[1].ret = "Ok" =>
       LET c == calls[1]
           sess == sessions[registry[c.secret.session].id]
       IN ~is_encrypted(sess) =>
            get_secret_with_session(items[registry[c.rpath].id], sess)
              = Secret(c.secret.session, PlainBytes(c.secret.value.data), 0)
  /\ Returned(1, "GetSecret") /\ calls[1].ret = "Ok" =>
       LET c == calls[1]
           sess == sessions[registry[c.apath].id]
       IN ~is_encrypted(sess) =>
            c.rsecret = Secret(c.apath,
                               PlainBytes(as_bytes(items[c.tgt].secret)), 0)

C8_Witness ==
  /\ Returned(1, "GetSecret")
  /\ calls[1].ret = "Ok"
  /\ ~is_encrypted(sessions[registry[calls[1].apath].id])
  /\ calls[1].rsecret.value = PlainBytes(Value2)

\* C9: through a Dh session, reading back an item that CreateItem stored
\* from the client's ciphertext of V under a client-chosen IV yields a
\* (ciphertext, IV) pair that decrypts under the session key to V, and
\* Item.GetSecret through a Dh session returns a pair that decrypts under
\* the key of that session to the plaintext the item holds.
C9_DhRoundTrip ==
  /\ Returned(1, "CreateItem") /\ calls[1].ret = "Ok" =>
       LET c == calls[1]
           sess == sessions[registry[c.secret.session].id]
           r == get_secret_with_session(items[registry[c.rpath].id], sess)
       IN is_encrypted(sess) =>
            /\ r.session = c.secret.session
            /\ DecryptOk(sess.algorithm, r.value, r.parameters)
            /\ decrypt(sess.algorithm, r.value, r.parameters)
                 = c.secret.value.data
  /\ Returned(1, "GetSecret") /\ calls[1].ret = "Ok" =>
       LET c == calls[1]
           sess == sessions[registry[c.apath].id]
       IN is_encrypted(sess) =>
            /\ c.rsecret.session = c.apath
            /\ DecryptOk(sess.algorithm, c.rsecret.value, c.rsecret.parameters)
            /\ decrypt(sess.algorithm, c.rsecret.value, c.rsecret.parameters)
                 = as_bytes(items[c.tgt].secret)

C9_Witness ==
  /\ Returned(1, "GetSecret")
  /\ calls[1].ret = "Ok"
  /\ is_encrypted(sessions[registry[calls[1].apath].id])
  /\ calls[1].rsecret.value.enc
  /\ calls[1].rsecret.value.iv # ClientIv
  /\ calls[1].rsecret.value.data = Value1

\* C10: Item.SetSecret with a live session and an envelope the session can
\* decode returns Ok, stores the decoded value as the plaintext of the item,
\* emits one ItemChanged, leaves every other item as it was, and what a
\* client reads through any live session is the new value.
C10_SetSecretReplaces ==
  Returned(1, "SetSecret")
  /\ HasInterface(registry, calls[1].secret.session, "Session") =>
    LET c == calls[1]
        sess == sessions[registry[c.secret.session].id]
    IN DecodeOk(sess, c.secret) =>
         /\ c.ret = "Ok"
         /\ items[c.tgt].secret = Decode(sess, c.secret)
         /\ as_bytes(items[c.tgt].secret) = ClientDecode(sess, c.secret)
         /\ c.sigs = <<[name |-> "ItemChanged", path |-> c.path]>>
         /\ Len(items) = Len(c.pre.items)
         /\ \A id \in 1..Len(items) :
              IF id = c.tgt
              THEN items[id] = [c.pre.items[id] EXCEPT !.secret = items[id].secret]
              ELSE items[id] = c.pre.items[id]
         /\ \A sp \in SessionPaths :
              HasInterface(registry, sp, "Session") =>
                LET via == sessions[registry[sp].id]
                    r == get_secret_with_session(items[c.tgt], via)
                IN /\ ClientDecodeOk(via, r)
                   /\ ClientDecode(via, r) = ClientDecode(sess, c.secret)

C10_Witness ==
  /\ Returned(1, "SetSecret")
  /\ calls[1].ret = "Ok"
  /\ Len(items) = 2
  /\ items[calls[1].tgt].secret # calls[1].pre.items[calls[1].tgt].secret
  /\ is_encrypted(sessions[registry[calls[1].secret.session].id])

\* C7: Service.SearchItems(A) returns every item with attribute set A of
\* every live collection exactly once, in the unlocked list iff the item and
\* its collection are both unlocked, in the locked list otherwise.
C7_SearchItemsPartition ==
  Returned(1, "SearchItems") =>
    LET c == calls[1]
        live == {registry[cp].id :
                   cp \in {x \in service.collections :
                             HasInterface(registry, x, "Collection")}}
        match(k) == {p \in colls[k].items :
                       /\ HasInterface(registry, p, "Item")
                       /\ items[registry[p].id].attributes = c.attrs}
        all == UNION {match(k) : k \in live}
        unl == UNION {{p \in match(k) : /\ ~colls[k].locked
                                        /\ ~items[registry[p].id].locked} :
                      k \in live}
    IN /\ Range(c.rlist) = unl
       /\ Range(c.rlist2) = all \ unl
       /\ Len(c.rlist) + Len(c.rlist2) = Cardinality(all)

\* C1: Service.CreateCollection with a non-empty alias that is already in
\* the alias map returns the mapped path and prompt '/', registers nothing,
\* leaves the collection set and the alias map as they were and emits no
\* signal; and after any successful call with a non-empty alias the alias
\* maps to the returned path, so that a second call returns it again.
C1_ExistingAliasReturned ==
  \A s \in Slots :
    Returned(s, "CreateCollection") /\ calls[s].name # "" =>
      /\ calls[s].ret = "Ok"
      /\ calls[s].prompt = RootPath
      /\ service.aliases[calls[s].name] = calls[s].rpath
      /\ calls[s].name \in DOMAIN calls[s].pre.service.aliases =>
            /\ calls[s].rpath = calls[s].pre.service.aliases[calls[s].name]
            /\ registry = calls[s].pre.registry
            /\ service = calls[s].pre.service
            /\ colls = calls[s].pre.colls
            /\ calls[s].sigs = <<>>

C1_Witness ==
  \E s \in Slots :
    /\ Returned(s, "CreateCollection")
    /\ calls[s].name = "mine"
    /\ "mine" \in DOMAIN calls[s].pre.service.aliases
    /\ calls[s].rpath = Path("collection", 2, 0)

\* The session a call refers to by path.
SessionRef(c) ==
  IF c.op \in {"GetSecret", "GetSecrets"} THEN c.apath ELSE c.secret.session

\* A session that was opened and is no longer registered.
ClosedSession(reg, sp) ==
  sp.kind = "session" /\ sp.cid \in 1..Len(sessions) /\ sp \notin DOMAIN reg

\* C11: when Session.Close has returned the path of the session is
\* unregistered and stays so, and every Item.GetSecret, Item.SetSecret,
\* Collection.CreateItem and Service.GetSecrets that refers to a closed
\* session fails with NoSession, changes no state and emits nothing.
C11_ClosedSessionNoSession ==
  /\ [](Returned(1, "Close") =>
         calls[1].ret = "Ok" /\ calls[1].path \notin DOMAIN registry)
  /\ [](\A op \in {"GetSecret", "SetSecret", "CreateItem", "GetSecrets"} :
         Returned(1, op)
         /\ ClosedSession(calls[1].pre.registry, SessionRef(calls[1])) =>
           /\ calls[1].ret = "NoSession"
           /\ Snapshot = calls[1].pre
           /\ calls[1].sigs = <<>>
           /\ calls[1].rmap = EmptyFn
           /\ calls[1].rsecret = NoSecret)
  /\ [][\A sp \in SessionPaths :
          ClosedSession(registry, sp) => sp \notin DOMAIN registry']_vars

C11_Witness ==
  /\ Returned(1, "CreateItem")
  /\ ClosedSession(calls[1].pre.registry, calls[1].secret.session)
  /\ calls[1].ret = "NoSession"
  /\ Len(items) = 1

\* C12: Session.Close unregisters the path of the session and changes
\* nothing else (collections, items, secrets, locked flags, aliases, the
\* other sessions), and Item.GetSecret through an open session returns the
\* plaintext the item holds, whichever session stored it.
C12_CloseFrame ==
  /\ Returned(1, "Close") /\ calls[1].ret = "Ok" =>
       LET c == calls[1]
       IN /\ DOMAIN registry = DOMAIN c.pre.registry \ {c.path}
          /\ \A p \in DOMAIN registry : registry[p] = c.pre.registry[p]
          /\ service = c.pre.service
          /\ colls = c.pre.colls
          /\ items = c.pre.items
          /\ sessions = c.pre.sessions
          /\ c.sigs = <<>>
  /\ Returned(1, "GetSecret") /\ calls[1].ret = "Ok" =>
       LET c == calls[1]
           via == sessions[registry[c.apath].id]
       IN /\ ClientDecodeOk(via, c.rsecret)
          /\ ClientDecode(via, c.rsecret) = as_bytes(items[c.tgt].secret)

C12_Witness ==
  /\ Returned(1, "Close")
  /\ calls[1].ret = "Ok"
  /\ Len(items) >= 1
  /\ \E sp \in SessionPaths : HasInterface(registry, sp, "Session")

\* C13: when no call is running, every path the alias map holds is in the
\* collection set of the service and is registered as a collection.
C13_AliasesLive ==
  SlotFree(1) =>
    \A n \in DOMAIN service.aliases :
      /\ service.aliases[n] \in service.collections
      /\ HasInterface(registry, service.aliases[n], "Collection")

\* C15: when no call is running, the Collections property (the collection
\* set of the service) is exactly the set of paths at which a collection is
\* registered, and it does not contain the path of a collection whose
\* Delete has just returned '/'.
C15_CollectionsRegistered ==
  SlotFree(1) =>
    /\ service.collections =
         {p \in DOMAIN registry : registry[p].kind = "Collection"}
    /\ Returned(1, "CollectionDelete") /\ calls[1].ret = "Ok" =>
         calls[1].path \notin service.collections

\* C14: every path a client reads through the Items property of a collection
\* is the path of a registered item at the moment it is read.
C14_ItemsRegistered ==
  \A s \in Slots :
    Returned(s, "CollectionItems") => calls[s].stale = {}

\* C16: after Item.Delete on a live item has returned "/", the item is
\* unregistered, its path is neither in the child set nor in the attribute
\* index of its parent collection, exactly one ItemDeleted was emitted, and
\* Collection.SearchItems with the attribute set of the item does not return
\* its path.
C16_ItemDeleteComplete ==
  Returned(1, "ItemDelete") /\ calls[1].ret = "Ok" =>
    LET c == calls[1]
        item == items[c.tgt]
        parent == colls[c.pre.registry[item.parent_path].id]
    IN /\ c.rpath = RootPath
       /\ ~HasInterface(registry, c.path, "Item")
       /\ c.path \notin parent.items
       /\ c.path \notin DOMAIN parent.items_with_attributes
       /\ SigNames(c.sigs) = <<"ItemDeleted">>
       /\ c.path \notin search_items(parent, item.attributes)

\* C17: Collection.SearchItems matches against the current attributes of each
\* item: once the Attributes property of an item was written, the attribute
\* index of its parent collection holds the written set for it, so that a
\* search for the written set returns the item and a search for any other
\* set does not.
C17_SearchCurrentAttributes ==
  Returned(1, "SetAttributes") /\ calls[1].ret = "Ok" =>
    LET c == calls[1]
        item == items[c.tgt]
    IN HasInterface(registry, item.parent_path, "Collection") =>
         LET parent == colls[registry[item.parent_path].id]
         IN \A a \in AttrSets :
              c.path \in search_items(parent, a) <=> item.attributes = a

\* The items of the collection a CreateItem call entered with whose attribute
\* set equals the attribute set of the new item.
SameAttributes(c) ==
  {p \in c.pre.colls[c.tgt].items :
     /\ HasInterface(c.pre.registry, p, "Item")
     /\ c.pre.items[c.pre.registry[p].id].attributes = c.attrs}

\* C18: Collection.CreateItem with replace = true removes from the child set
\* and the attribute index exactly the existing items whose attribute set
\* equals that of the new item, keeps every other item with its index entry,
\* and adds the new item.
C18_ReplaceRemovesEqual ==
  Returned(1, "CreateItem") /\ calls[1].ret = "Ok" /\ calls[1].replace =>
    LET c == calls[1]
        old == c.pre.colls[c.tgt]
        new == colls[c.tgt]
        kept == old.items \ SameAttributes(c)
    IN /\ new.items = kept \cup {c.rpath}
       /\ DOMAIN new.items_with_attributes = kept \cup {c.rpath}
       /\ new.items_with_attributes[c.rpath] = c.attrs
       /\ \A p \in kept :
            new.items_with_attributes[p] = old.items_with_attributes[p]

\* C19: Collection.CreateItem emits ItemChanged when replace is true and an
\* existing item of the collection has exactly the attribute set of the new
\* item, and ItemCreated in every other case.
C19_CreateItemSignal ==
  Returned(1, "CreateItem") /\ calls[1].ret = "Ok" =>
    LET c == calls[1]
    IN /\ c.sigs # <<>>
       /\ c.sigs[1].name =
            IF c.replace /\ SameAttributes(c) # {}
            THEN "ItemChanged" ELSE "ItemCreated"

\* C20: once the default collection has been deleted, a CreateCollection with
\* alias "default" registers a new collection at the default path, lists it
\* in Collections and returns that path.
C20_DefaultRecreated ==
  /\ Returned(1, "CreateCollection")
  /\ calls[1].name = "default"
  /\ ~HasInterface(calls[1].pre.registry, DefaultPath, "Collection")
  => /\ calls[1].ret = "Ok"
     /\ calls[1].rpath = DefaultPath
     /\ HasInterface(registry, DefaultPath, "Collection")
     /\ DefaultPath \in service.collections

\* C21: a Delete call on an item or on the default collection returns "/",
\* also when an earlier Delete has already removed the object: the second
\* call answers "/" as the first did, emits no further signal and changes no
\* state.
C21_DeleteTwice ==
  /\ calls[1].pc = "done"
  /\ \/ calls[1].op = "ItemDelete" /\ calls[1].path \in ItemPaths
     \/ calls[1].op = "CollectionDelete" /\ calls[1].path = DefaultPath
  /\ calls[1].path \notin DOMAIN calls[1].pre.registry
  => /\ calls[1].ret = "Ok"
     /\ calls[1].rpath = RootPath
     /\ calls[1].sigs = <<>>

\* C22: an OpenSession call with an algorithm string other than "plain" and
\* the Dh algorithm fails with AlgorithmUnsupported, one with the Dh
\* algorithm and an input that is not 32 bytes long fails with InvalidArgs,
\* and no failed OpenSession changes the registered sessions.
C22_OpenSessionFails ==
  Returned(1, "OpenSession") =>
    LET c == calls[1]
    IN /\ c.name \notin {"plain", DhAlgorithm} => c.ret = "AlgorithmUnsupported"
       /\ c.name = DhAlgorithm /\ Len(c.input) # 32 => c.ret = "InvalidArgs"
       /\ c.ret # "Ok" => registry = c.pre.registry /\ sessions = c.pre.sessions

C22_Witness ==
  /\ Returned(1, "OpenSession")
  /\ calls[1].name = DhAlgorithm
  /\ calls[1].ret = "InvalidArgs"
  /\ sessions # <<>>

\* C23: OpenSession("plain", input) succeeds, registering a fresh Plain
\* session and returning its path, exactly if input is the empty byte
\* string; with any non-empty input it fails with InvalidArgs.
C23_PlainInputEmpty ==
  Returned(1, "OpenSession") /\ calls[1].name = "plain" =>
    LET c == calls[1]
    IN IF c.input = <<>>
       THEN /\ c.ret = "Ok"
            /\ c.rpath \notin DOMAIN c.pre.registry
            /\ HasInterface(registry, c.rpath, "Session")
            /\ ~is_encrypted(sessions[registry[c.rpath].id])
       ELSE c.ret = "InvalidArgs" /\ registry = c.pre.registry

\* C24: ReadAlias(name) returns the path the alias map holds for name and "/"
\* when name is unmapped; the path a CreateCollection with a non-empty alias
\* X returned is the entry of X, and the entries of the map stay as they are
\* in every step of a call other than SetAlias and Delete.
C24_ReadAliasMap ==
  /\ [](Returned(1, "ReadAlias") =>
         /\ calls[1].ret = "Ok"
         /\ calls[1].rpath =
              IF calls[1].name \in DOMAIN service.aliases
              THEN service.aliases[calls[1].name] ELSE RootPath)
  /\ [](Returned(1, "CreateCollection") /\ calls[1].name # "" =>
         /\ calls[1].name \in DOMAIN service.aliases
         /\ service.aliases[calls[1].name] = calls[1].rpath)
  /\ [][calls[1]'.op \notin {"SetAlias", "CollectionDelete"} =>
         \A n \in DOMAIN service.aliases :
           /\ n \in DOMAIN service.aliases'
           /\ service.aliases'[n] = service.aliases[n]]_vars

C24_Witness ==
  /\ Returned(1, "ReadAlias")
  /\ calls[1].name = "mine"
  /\ calls[1].rpath = Path("collection", 2, 0)

\* C25: after SetAlias(name, P) succeeded for a live collection P, the alias
\* map holds P for name, so that ReadAlias(name) returns P, and the
\* collection registered at P has its alias field equal to name.
C25_SetAliasPointsAtP ==
  Returned(1, "SetAlias") /\ calls[1].ret = "Ok" /\ calls[1].apath # RootPath =>
    LET c == calls[1]
    IN /\ read_alias(service.aliases, c.name) = c.apath
       /\ HasInterface(registry, c.apath, "Collection")
       /\ colls[registry[c.apath].id].alias = c.name

\* C26: SetAlias(name, "/") removes name from the alias map when name was
\* mapped, and fails with NoSuchObject, changing nothing, when it was not.
C26_SetAliasClear ==
  Returned(1, "SetAlias") /\ calls[1].apath = RootPath =>
    LET c == calls[1]
    IN IF c.name \in DOMAIN c.pre.service.aliases
       THEN /\ c.ret = "Ok"
            /\ c.name \notin DOMAIN service.aliases
            /\ read_alias(service.aliases, c.name) = RootPath
       ELSE c.ret = "NoSuchObject" /\ Snapshot = c.pre

\* C27: between calls each collection is the target of at most one entry of
\* the alias map, and the name of that entry is the alias field of the
\* collection.
C27_OneAliasPerCollection ==
  SlotFree(1) =>
    \A n \in DOMAIN service.aliases :
      /\ \A m \in DOMAIN service.aliases :
           service.aliases[m] = service.aliases[n] => m = n
      /\ HasInterface(registry, service.aliases[n], "Collection") =>
           colls[registry[service.aliases[n]].id].alias = n

C29_LockedSecretHidden ==
  /\ Returned(1, "GetSecret") /\ calls[1].ret = "Ok" =>
       ~items[calls[1].tgt].locked
  /\ Returned(1, "GetSecrets") /\ calls[1].ret = "Ok" =>
       \A p \in DOMAIN calls[1].rmap :
         HasInterface(registry, p, "Item") /\ ~items[registry[p].id].locked

\* C30: a CreateItem or SetSecret whose secret cannot be decoded through its
\* session (bad padding under a Dh session, bytes that are not UTF-8) is
\* answered with the error InvalidArgs, and no item is created or modified.
C30_DecodeFailsInvalidArgs ==
  \A op \in {"CreateItem", "SetSecret"} :
    Returned(1, op)
    /\ HasInterface(calls[1].pre.registry, calls[1].secret.session, "Session")
    /\ ~DecodeOk(sessions[calls[1].pre.registry[calls[1].secret.session].id],
                 calls[1].secret)
    => /\ calls[1].ret = "InvalidArgs"
       /\ items = calls[1].pre.items
       /\ registry = calls[1].pre.registry

\* C31: Service.Lock([P1]) on a collection P1 that CreateCollection has just
\* returned, with no Lock or Unlock called on it before, returns ([P1], "/").
C31_LockFreshCollection ==
  /\ Returned(1, "Lock")
  /\ Len(calls[1].paths) = 1
  /\ HasInterface(calls[1].pre.registry, calls[1].paths[1], "Collection")
  => /\ calls[1].ret = "Ok"
     /\ calls[1].rlist = calls[1].paths
     /\ calls[1].prompt = RootPath

\* C32: every Collection.Delete that entered its handler, with no other call
\* in flight, returns: it does not wait forever for the lock of an object.
C32_DeleteTerminates ==
  (calls[1].op = "CollectionDelete" /\ calls[1].pc \in {"run", "parent"})
    ~> (calls[1].op = "CollectionDelete" /\ calls[1].pc = "done")

\* C33: whenever a call that holds the guard of one object awaits the guard
\* of another, the second object lies strictly further in along Service,
\* Collection, Item, Session.
C33_LockOrder ==
  \A s \in Slots :
    \A h \in calls[s].held, w \in Wants(s) : Rank(h.kind) < Rank(w.kind)

\* Call s awaits guards, and each of them conflicts with a guard call t holds.
WaitsFor(s, t) ==
  /\ Wants(s) # {}
  /\ \A w \in Wants(s) :
       \E h \in calls[t].held :
         h.kind = w.kind /\ h.id = w.id /\ (h.mode = "w" \/ w.mode = "w")

\* C34: in no reachable state do two concurrently dispatched calls wait for
\* the guards each other holds.
C34_NoDeadlock ==
  \A s, t \in Slots : s # t => ~(WaitsFor(s, t) /\ WaitsFor(t, s))

\* C35: when an Item.Delete or a Collection.Delete has emitted ItemDeleted or
\* CollectionDeleted for a path, that path is no longer registered in the
\* object server.
C35_UnregisteredBeforeSignal ==
  calls[1].op \in {"ItemDelete", "CollectionDelete"} =>
    \A k \in 1..Len(calls[1].sigs) :
      calls[1].sigs[k].name \in {"ItemDeleted", "CollectionDeleted"} =>
        calls[1].sigs[k].path \notin DOMAIN registry

\* C36: between calls the child set of every collection equals the set of
\* keys of its attribute index.
C36_ChildSetIsIndex ==
  SlotFree(1) =>
    \A k \in 1..Len(colls) :
      colls[k].items = DOMAIN colls[k].items_with_attributes

\* C37: between calls the parent path of every registered item is the path
\* of a registered collection, and the child set of that collection contains
\* the path of the item.
C37_ItemHasLiveParent ==
  SlotFree(1) =>
    \A p \in DOMAIN registry :
      registry[p].kind = "Item" =>
        LET parent == items[registry[p].id].parent_path
        IN /\ HasInterface(registry, parent, "Collection")
           /\ p \in colls[registry[parent].id].items

\* C39: every registered collection and item is registered at the path
\* get_object_path derives from its current fields.
C39_RegisteredAtDerivedPath ==
  \A p \in DOMAIN registry :
    /\ registry[p].kind = "Collection" =>
         CollectionGetObjectPath(colls[registry[p].id]) = p
    /\ registry[p].kind = "Item" =>
         ItemGetObjectPath(items[registry[p].id]) = p

\* C38: a Collection.CreateItem that enters its handler after the collection
\* it was dispatched to has been deleted has no effect: it registers no
\* item, changes no child set and emits no signal.
C38_LateCreateItemNoEffect ==
  \A s \in Slots :
    Returned(s, "CreateItem")
    /\ ~HasInterface(calls[s].pre.registry, calls[s].path, "Collection")
    => /\ calls[s].ret # "Ok"
       /\ calls[s].sigs = <<>>
       /\ items = calls[s].pre.items
       /\ colls[calls[s].tgt] = calls[s].pre.colls[calls[s].tgt]
       /\ {p \in DOMAIN registry : registry[p].kind = "Item"} =
            {p \in DOMAIN calls[s].pre.registry :
               calls[s].pre.registry[p].kind = "Item"}

\* The registered collections of a registry.
Collections(reg) == {p \in DOMAIN reg : reg[p].kind = "Collection"}

\* C40: of two CreateCollection calls with the same non-empty alias, one of
\* which entered its handler with the alias unmapped, exactly one registers a
\* collection and emits CollectionCreated, and both return the same path.
C40_CreateCollectionSerialised ==
  \A s, t \in Slots :
    /\ s # t
    /\ Returned(s, "CreateCollection") /\ Returned(t, "CreateCollection")
    /\ calls[s].name = calls[t].name /\ calls[s].name # ""
    /\ calls[s].name \notin DOMAIN calls[s].pre.service.aliases
    => /\ calls[s].ret = "Ok" /\ calls[t].ret = "Ok"
       /\ calls[s].rpath = calls[t].rpath
       /\ HasInterface(registry, calls[s].rpath, "Collection")
       /\ Collections(registry) =
            Collections(calls[s].pre.registry) \cup {calls[s].rpath}
       /\ calls[s].rpath \notin DOMAIN calls[s].pre.registry
       /\ SigNames(calls[s].sigs \o calls[t].sigs) = <<"CollectionCreated">>

C40_Witness ==
  /\ Returned(1, "CreateCollection") /\ Returned(2, "CreateCollection")
  /\ calls[1].name = "mine" /\ calls[2].name = "mine"
  /\ "mine" \notin DOMAIN calls[2].pre.service.aliases
  /\ calls[1].sigs = <<>>

====
